---- MODULE Spec2Model ----
(***************************************************************************)
(* Model of src/pages/yami.py: a Streamlit page that resolves a school by  *)
(* name against the NEIS school directory, fetches the meal records of one *)
(* day and shows the cleaned lunch menu.                                   *)
(*                                                                         *)
(* Python strings that the code inspects character by character (strip,   *)
(* replace, re.sub) are sequences of one-character strings.  A Python      *)
(* value that may be None, a string or an integer is a record              *)
(* [t |-> "none" | "str" | "int", s |-> <characters>].                     *)
(***************************************************************************)
EXTENDS Integers, Sequences, FiniteSets, TLC

(***************************************************************************)
(* Bounds of the model.                                                    *)
(***************************************************************************)
MaxPieces == 4       \* fragments concatenated into one raw menu text
MaxRuns == 2         \* script runs (user interactions) in one session
MaxSchools == 2      \* rows of a school-directory response
MaxRows == 2         \* rows of a meal-service response
MaxLunchRows == 2    \* meal records handed to the lunch selection alone

(***************************************************************************)
(* Python values and string primitives.                                    *)
(***************************************************************************)
None == [t |-> "none", s |-> <<>>]
Absent == [t |-> "absent", s |-> <<>>]     \* key missing from a dict
PyStr(chars) == [t |-> "str", s |-> chars]
PyInt(chars) == [t |-> "int", s |-> chars]

\* Python truthiness of None / str / int ("not x" is ~Truthy(x)).
Truthy(v) ==
    CASE v.t = "none" -> FALSE
      [] v.t = "str"  -> v.s # <<>>
      [] v.t = "int"  -> v.s # <<"0">>

IsSpace(c) == c \in {" ", "\t", "\n", "\r"}
IsDigit(c) == c \in {"0", "1", "2", "3", "4", "5", "6", "7", "8", "9"}

RECURSIVE LStrip(_)
LStrip(s) ==
    IF s = <<>> THEN s
    ELSE IF IsSpace(Head(s)) THEN LStrip(Tail(s)) ELSE s

RECURSIVE RStrip(_)
RStrip(s) ==
    IF s = <<>> THEN s
    ELSE IF IsSpace(s[Len(s)]) THEN RStrip(SubSeq(s, 1, Len(s) - 1)) ELSE s

\* str.strip()
strip(s) == RStrip(LStrip(s))

StartsWith(s, p) == Len(s) >= Len(p) /\ SubSeq(s, 1, Len(p)) = p

\* str.replace(old, new): leftmost, non-overlapping, single pass.
RECURSIVE replace(_, _, _)
replace(s, old, new) ==
    IF s = <<>> THEN <<>>
    ELSE IF StartsWith(s, old)
         THEN new \o replace(SubSeq(s, Len(old) + 1, Len(s)), old, new)
         ELSE <<Head(s)>> \o replace(Tail(s), old, new)

\* length of the maximal run of digits at the start of s
RECURSIVE DigitRun(_)
DigitRun(s) ==
    IF s = <<>> \/ ~IsDigit(Head(s)) THEN 0 ELSE 1 + DigitRun(Tail(s))

\* a variant that leaves the allergen codes in the text
re_sub_codes_kept(s) == s

\* re.sub(r"[0-9]+\.", "", s)
RECURSIVE re_sub_codes(_)
re_sub_codes(s) ==
    IF s = <<>> THEN <<>>
    ELSE IF IsDigit(Head(s))
         THEN LET n == DigitRun(s) IN
              IF n < Len(s) /\ s[n + 1] = "."
              THEN re_sub_codes(SubSeq(s, n + 2, Len(s)))
              ELSE SubSeq(s, 1, n) \o re_sub_codes(SubSeq(s, n + 1, Len(s)))
         ELSE <<Head(s)>> \o re_sub_codes(Tail(s))

RECURSIVE DropTrailingDigits(_)
DropTrailingDigits(s) ==
    IF s = <<>> \/ ~IsDigit(s[Len(s)]) THEN s
    ELSE DropTrailingDigits(SubSeq(s, 1, Len(s) - 1))

\* re.sub(r"\s*\d+\s*$", "", s): the leftmost match is the whitespace run
\* before the last number, the number, and the whitespace after it.
re_sub_trailing(s) ==
    LET a == RStrip(s) IN
    IF a # <<>> /\ IsDigit(a[Len(a)]) THEN RStrip(DropTrailingDigits(a)) ELSE s

BR_SLASH == <<"<", "b", "r", "/", ">">>
BR == <<"<", "b", "r", ">">>
NL == <<"\n">>

\* clean_ddish(txt); txt is a Python value, the result a string
clean_ddish(txt) ==
    IF ~Truthy(txt) THEN <<>>
    ELSE strip(re_sub_trailing(re_sub_codes(
             replace(replace(txt.s, BR_SLASH, NL), BR, NL))))

(***************************************************************************)
(* Raw menu texts: concatenations of at most MaxPieces fragments.          *)
(***************************************************************************)
Fragments ==
    { BR_SLASH, BR, <<"<", "b", "r">>, <<">">>, <<"1", ".">>,
      <<"1", "3", ".">>, <<"5">>, <<" ">>, <<"a">> }

RECURSIVE Concats(_)
Concats(n) ==
    IF n = 0 THEN {<<>>}
    ELSE LET P == Concats(n - 1) IN P \cup {p \o f : p \in P, f \in Fragments}

RawTexts == {None} \cup {PyStr(s) : s \in Concats(MaxPieces)}

(***************************************************************************)
(* HTTP responses.  A response is a status and a JSON body; the body is    *)
(* described by the facts the parsing code looks at:                       *)
(*   top     "dict" for a JSON object, "notjson" when r.json() fails       *)
(*   hasKey  the result key ("schoolInfo" / "mealServiceDietInfo") exists  *)
(*   result  JSON type of data[key], n its len() where it has one          *)
(*   second  JSON type of data[key][1]                                     *)
(*   hasRow  data[key][1] has a "row" entry                                *)
(*   row     the "row" value: its JSON type, its items, its len()/value    *)
(***************************************************************************)
RowList(items) == [kind |-> "list", items |-> items, n |-> Len(items)]
RowOther(kind, n) == [kind |-> kind, items |-> <<>>, n |-> n]
EmptyList == RowList(<<>>)

Envelope(rowval) ==
    [top |-> "dict", hasKey |-> TRUE, result |-> "list", n |-> 2,
     second |-> "dict", hasRow |-> TRUE, row |-> rowval]

KeyAbsent     == [Envelope(EmptyList) EXCEPT !.hasKey = FALSE, !.n = 0, !.hasRow = FALSE]
ResultEmpty   == [Envelope(EmptyList) EXCEPT !.n = 0, !.hasRow = FALSE]
ResultShort   == [Envelope(EmptyList) EXCEPT !.n = 1, !.hasRow = FALSE]
NoRowEntry    == [Envelope(EmptyList) EXCEPT !.hasRow = FALSE]
SecondNotDict == [Envelope(EmptyList) EXCEPT !.second = "str", !.hasRow = FALSE]
ResultNumber  == [Envelope(EmptyList) EXCEPT !.result = "num", !.n = 0, !.hasRow = FALSE]
ResultDict    == [Envelope(EmptyList) EXCEPT !.result = "dict", !.n = 1, !.hasRow = FALSE]
RowNumber     == Envelope(RowOther("num", 5))
RowNull       == Envelope(RowOther("null", 0))
NotJson       == [Envelope(EmptyList) EXCEPT !.top = "notjson", !.hasKey = FALSE, !.n = 0, !.hasRow = FALSE]

\* success-status JSON bodies without the expected structure
MalformedShapes ==
    { KeyAbsent, ResultEmpty, ResultShort, NoRowEntry, SecondNotDict,
      ResultNumber, ResultDict, RowNumber, RowNull }

Response(status, body) == [status |-> status, body |-> body]
NoResponse == Response("none", KeyAbsent)
\* requests.get raised (timeout, connection error), or a non-2xx status
FailedResponses == {Response("transport_error", KeyAbsent), Response("http_error", KeyAbsent)}

\* a status check that never raises
raise_for_status_skipped(resp) == FALSE

\* r.raise_for_status() raises
raise_for_status(resp) == resp.status = "http_error"

\* lines 64-66 / 99-101: requests.get, raise_for_status or r.json() raises
FetchRaises(resp) ==
    \/ resp.status = "transport_error"
    \/ raise_for_status(resp)
    \/ resp.body.top = "notjson"

\* len(data[key]) raises TypeError (line 68 / 102, outside the try)
LenRaises(body) == body.hasKey /\ body.result \in {"num", "null"}

\* `key not in data or len(data[key]) < 1`
EarlyEmpty(body) == ~body.hasKey \/ body.n < 1

\* try: data[key][1]["row"]  except Exception: []
TryRow(body) ==
    IF body.result = "list" /\ body.n >= 2 /\ body.second = "dict" /\ body.hasRow
    THEN body.row ELSE EmptyList

Returned(v) == [raised |-> FALSE, value |-> v]
Raised == [raised |-> TRUE, value |-> EmptyList]

\* the six fields find_school copies out of a directory row
Candidate(it) ==
    [ATPT_OFCDC_SC_CODE |-> it.ATPT_OFCDC_SC_CODE,
     ATPT_OFCDC_SC_NM |-> it.ATPT_OFCDC_SC_NM,
     SD_SCHUL_CODE |-> it.SD_SCHUL_CODE,
     SCHUL_NM |-> it.SCHUL_NM,
     ENG_SCHUL_NM |-> it.ENG_SCHUL_NM,
     LCTN_ADRES |-> it.LCTN_ADRES]

\* find_school, from the response on: the list of candidates, or an exception
find_school(resp) ==
    IF FetchRaises(resp) \/ LenRaises(resp.body) THEN Raised
    ELSE IF EarlyEmpty(resp.body) THEN Returned(EmptyList)
    ELSE LET items == TryRow(resp.body) IN
         CASE items.kind \in {"num", "null"} -> Raised            \* not iterable
           [] items.kind \in {"str", "dict"} ->                     \* iterates str
                IF items.n = 0 THEN Returned(EmptyList) ELSE Raised
           [] OTHER ->
                IF \E i \in 1..Len(items.items) : ~items.items[i].rec
                THEN Raised                                         \* it.get fails
                ELSE Returned(RowList([i \in 1..Len(items.items) |->
                                          Candidate(items.items[i])]))

\* get_meal, from the response on: the "row" value as it is, or an exception
get_meal(resp) ==
    IF FetchRaises(resp) \/ LenRaises(resp.body) THEN Raised
    ELSE IF EarlyEmpty(resp.body) THEN Returned(EmptyList)
    ELSE Returned(TryRow(resp.body))

\* `not x` for the value a parser returned
Falsy(v) == v.kind = "null" \/ v.n = 0

(***************************************************************************)
(* Lunch selection and display (lines 152-182).                            *)
(***************************************************************************)
\* dict.get(key) and dict.get(key, default)
Get(v) == IF v.t = "absent" THEN None ELSE v
GetOr(v, default) == IF v.t = "absent" THEN default ELSE v

\* x in ("2", 2, "2 ", " 2")
InLunchTuple(v) ==
    \/ v.t = "str" /\ v.s \in {<<"2">>, <<"2", " ">>, <<" ", "2">>}
    \/ v.t = "int" /\ v.s = <<"2">>

IsLunch(m) == InLunchTuple(Get(m.MMEAL_SC_CODE))

\* a fallback that keeps the first record only
LunchItemsFirst(ms) ==
    IF SelectSeq(ms, IsLunch) = <<>> THEN SubSeq(ms, 1, 1) ELSE SelectSeq(ms, IsLunch)

\* lines 154-157: the lunch records, or every record when there is none
LunchItems(ms) ==
    IF SelectSeq(ms, IsLunch) = <<>> THEN ms ELSE SelectSeq(ms, IsLunch)

\* line 154 raises: meals is not a list of dicts (iteration or m.get fails)
FilterRaises(v) ==
    \/ v.kind # "list"
    \/ \E i \in 1..Len(v.items) : ~v.items[i].rec

\* lines 173-182: one displayed entry
Entry(item) ==
    [date |-> item.MLSV_YMD,
     meal_code |-> GetOr(item.MMEAL_SC_CODE, PyStr(<<>>)),
     menu |-> clean_ddish(GetOr(item.DDISH_NM, PyStr(<<>>))),
     kcal |-> item.CAL_INFO,
     origin_info |-> item.ORPLC_INFO,
     nutr_info |-> item.NTR_INFO]

Displayed(items) == [i \in 1..Len(items) |-> Entry(items[i])]

(***************************************************************************)
(* Inputs of the page and answers of the two endpoints.                    *)
(***************************************************************************)
Secrets == {None, PyStr(<<>>), PyStr(<<"k">>)}        \* st.secrets NEIS_API_KEY
KeyInputs == {<<>>, <<" ">>, <<"k", " ">>}
NameInputs == {<<>>, <<" ">>, <<" ", "A">>}
REGION_ALL == "ALL"                                   \* first option of the selectbox
Regions == {REGION_ALL, "R1"}
Dates == {"20240304"}

SchoolRow(atpt, nm, sd, sch) ==
    [rec |-> TRUE, ATPT_OFCDC_SC_CODE |-> atpt, ATPT_OFCDC_SC_NM |-> nm,
     SD_SCHUL_CODE |-> sd, SCHUL_NM |-> sch, ENG_SCHUL_NM |-> "", LCTN_ADRES |-> ""]
NotARecord == [SchoolRow("", "", "", "") EXCEPT !.rec = FALSE]
\* the directory the upstream service answers from; a response carries a prefix
Directory ==
    << SchoolRow("B10", "R1", "7010", "A high"),
       SchoolRow("J10", "R2", "7530", "A middle"),
       SchoolRow("C10", "R3", "7150", "A girls"),
       SchoolRow("D10", "R4", "7240", "A tech") >>

MealRow(code, dish, ymd) ==
    [rec |-> TRUE, MMEAL_SC_CODE |-> code, DDISH_NM |-> dish, MLSV_YMD |-> ymd,
     CAL_INFO |-> "650 Kcal", ORPLC_INFO |-> "", NTR_INFO |-> ""]
NotAMeal == [MealRow(Absent, Absent, "") EXCEPT !.rec = FALSE]
Dish == PyStr(<<"a", "<", "b", "r", "/", ">", "a", "1", ".", "5", ".">>)
\* the meals of one day as the upstream service lists them
DayMenu ==
    << MealRow(PyStr(<<"1">>), Absent, "20240304"),
       MealRow(PyStr(<<"2">>), Dish, "20240304"),
       MealRow(PyStr(<<"3">>), Dish, "20240304"),
       MealRow(PyInt(<<"2">>), Dish, "20240304") >>

Prefixes(listing, n) == {SubSeq(listing, 1, k) : k \in 0..n}

OkResponses(shapes) == {Response("ok", b) : b \in shapes}

SchoolResponses ==
    FailedResponses
    \cup OkResponses(MalformedShapes \cup {NotJson, Envelope(RowList(<<NotARecord>>))})
    \cup OkResponses({Envelope(RowList(rows)) : rows \in Prefixes(Directory, MaxSchools)})

MealResponses ==
    FailedResponses
    \cup OkResponses(MalformedShapes \cup {NotJson, Envelope(RowList(<<NotAMeal>>))})
    \cup OkResponses({Envelope(RowList(rows)) : rows \in Prefixes(DayMenu, MaxRows)})

VARIABLES txt, menu, menu2, cpc

cvars == <<txt, menu, menu2, cpc>>

VARIABLES
    DEFAULT_KEY,     \* st.secrets.get("NEIS_API_KEY", None)
    api_key_input,   \* widgets of the current run
    school_name,
    region,
    query_date,
    button,
    API_KEY,
    pc,              \* line the script has reached; "idle" between runs
    runs,
    schools,         \* names of the button handler
    idx,
    chosen,
    meals,
    lunch_items,
    displayed,
    ui,              \* reports written to the page in this run
    log,             \* GET requests issued in this run
    calls,           \* functions called in this run
    school_resp,     \* response to this run's school-directory request
    meal_resp,       \* response to this run's meal-service request
    school_cache,    \* st.cache_data of find_school
    meal_cache,      \* st.cache_data of get_meal
    answered         \* find_school arguments a request has answered with candidates

inputs == <<api_key_input, school_name, region, query_date, button, API_KEY>>
locals == <<schools, idx, chosen, meals, lunch_items, displayed>>
net == <<log, school_resp, meal_resp, school_cache, meal_cache, answered>>
hvars == <<DEFAULT_KEY, inputs, pc, runs, locals, ui, calls, net>>
vars == <<cvars, hvars>>

PAGE_SIZE == 100
TIMEOUT == 10

NoSchool == Candidate(SchoolRow("", "", "", ""))

\* the page before any interaction: widgets at their defaults
HandlerIdle ==
    /\ api_key_input = <<>>
    /\ school_name = <<>>
    /\ region = REGION_ALL
    /\ query_date \in Dates
    /\ button = FALSE
    /\ API_KEY = None
    /\ pc = "idle"
    /\ runs = 0
    /\ schools = <<>>
    /\ idx = 0
    /\ chosen = NoSchool
    /\ meals = EmptyList
    /\ lunch_items = <<>>
    /\ displayed = <<>>
    /\ ui = <<>>
    /\ log = <<>>
    /\ calls = <<>>
    /\ school_resp = NoResponse
    /\ meal_resp = NoResponse
    /\ school_cache = <<>>
    /\ meal_cache = <<>>
    /\ answered = {}

CleanIdle ==
    /\ txt = None
    /\ menu = <<>>
    /\ menu2 = <<>>
    /\ cpc = "off"

Init ==
    /\ HandlerIdle
    /\ DEFAULT_KEY \in Secrets
    /\ CleanIdle

\* x or y
Or(x, y) == IF Truthy(x) THEN x ELSE y

\* st.stop(), the end of the script, or an uncaught exception
Report(msg) == ui' = Append(ui, msg) /\ pc' = "idle"

\* lines 18-41: a user interaction reruns the script from the top
Rerun ==
    /\ pc = "idle"
    /\ runs < MaxRuns
    /\ runs' = runs + 1
    /\ api_key_input' \in KeyInputs
    /\ school_name' \in NameInputs
    /\ region' \in Regions
    /\ query_date' \in Dates
    /\ button' \in BOOLEAN
    /\ API_KEY' = Or(PyStr(strip(api_key_input')), DEFAULT_KEY)
    /\ pc' = "key_check"
    /\ schools' = <<>>
    /\ idx' = 0
    /\ chosen' = NoSchool
    /\ meals' = EmptyList
    /\ lunch_items' = <<>>
    /\ displayed' = <<>>
    /\ ui' = <<>>
    /\ log' = <<>>
    /\ calls' = <<>>
    /\ school_resp' = NoResponse
    /\ meal_resp' = NoResponse
    /\ UNCHANGED <<DEFAULT_KEY, school_cache, meal_cache, answered, cvars>>

\* lines 21-23
CheckKey ==
    /\ pc = "key_check"
    /\ IF ~Truthy(API_KEY)
       THEN Report("warning_api_key")
       ELSE ui' = ui /\ pc' = "button"
    /\ UNCHANGED <<DEFAULT_KEY, inputs, runs, locals, calls, net, cvars>>

\* line 110: without a click the script ends here
Button ==
    /\ pc = "button"
    /\ pc' = IF button THEN "name_check" ELSE "idle"
    /\ UNCHANGED <<DEFAULT_KEY, inputs, runs, locals, ui, calls, net, cvars>>

\* a blank test that forgets to trim
IsBlankUntrimmed(name) == name = <<>>

\* not school_name.strip()
IsBlank(name) == strip(name) = <<>>

\* lines 111-113
CheckName ==
    /\ pc = "name_check"
    /\ IF IsBlank(school_name)
       THEN Report("error_blank_name")
       ELSE ui' = ui /\ pc' = "find_school"
    /\ UNCHANGED <<DEFAULT_KEY, inputs, runs, locals, calls, net, cvars>>

InitClean ==
    /\ HandlerIdle
    /\ DEFAULT_KEY = None
    /\ txt \in RawTexts
    /\ menu = <<>>
    /\ menu2 = <<>>
    /\ cpc = "raw"

\* lines 51-63: the GET request of find_school
SchoolRequest(api_key, name, region_name) ==
    [endpoint |-> "schoolInfo", KEY |-> api_key, Type |-> "json", pIndex |-> 1,
     pSize |-> PAGE_SIZE, SCHUL_NM |-> name,
     ATPT_OFCDC_SC_NM |-> IF region_name # REGION_ALL THEN region_name ELSE "absent",
     timeout |-> TIMEOUT]

\* lines 91-98: the GET request of get_meal
MealRequest(api_key, atpt_code, sch_code, ymd) ==
    [endpoint |-> "mealServiceDietInfo", KEY |-> api_key, Type |-> "json",
     ATPT_OFCDC_SC_CODE |-> atpt_code, SD_SCHUL_CODE |-> sch_code,
     MLSV_YMD |-> ymd, timeout |-> TIMEOUT]

\* a client that sends the request once more after a transport failure
requests_get_retrying(lg, req, resp) ==
    IF resp.status = "transport_error" THEN Append(Append(lg, req), req)
    ELSE Append(lg, req)

\* requests.get(url, params=params, timeout=10): one request on the wire
requests_get(lg, req, resp) == Append(lg, req)

\* lines 115-120: find_school through its cache, the failure report
FindSchool ==
    /\ pc = "find_school"
    /\ calls' = Append(calls, "find_school")
    /\ LET args == <<API_KEY, strip(school_name), region>> IN
       \/ /\ args \in DOMAIN school_cache
          /\ schools' = school_cache[args]
          /\ pc' = "check_schools"
          /\ UNCHANGED <<ui, net>>
       \/ /\ args \notin DOMAIN school_cache
          /\ \E resp \in SchoolResponses :
               LET r == find_school(resp) IN
               /\ log' = requests_get(log, SchoolRequest(args[1], args[2], args[3]), resp)
               /\ school_resp' = resp
               /\ IF r.raised
                  THEN /\ Report("error_search_failed")
                       /\ UNCHANGED <<schools, school_cache, answered>>
                  ELSE /\ schools' = r.value.items
                       /\ school_cache' = (args :> r.value.items) @@ school_cache
                       /\ answered' = IF r.value.items # <<>>
                                      THEN answered \cup {args} ELSE answered
                       /\ pc' = "check_schools"
                       /\ ui' = ui
          /\ UNCHANGED <<meal_resp, meal_cache>>
    /\ UNCHANGED <<DEFAULT_KEY, inputs, runs, idx, chosen, meals, lunch_items,
                   displayed, cvars>>

\* a selection that takes the region code from the first candidate
ChosenFirstRegion(schs, i) ==
    [(IF Len(schs) > 1 THEN schs[i + 1] ELSE schs[1])
        EXCEPT !.ATPT_OFCDC_SC_CODE = schs[1].ATPT_OFCDC_SC_CODE]

\* lines 127-135: schools[int(idx)], or the only candidate
Chosen(schs, i) == IF Len(schs) > 1 THEN schs[i + 1] ELSE schs[1]

\* lines 122-139: no candidate ends the run; else the number input picks one
CheckSchools ==
    /\ pc = "check_schools"
    /\ IF schools = <<>>
       THEN /\ Report("info_no_school")
            /\ UNCHANGED <<idx, chosen>>
       ELSE /\ idx' \in IF Len(schools) > 1 THEN 0..(Len(schools) - 1) ELSE {0}
            /\ chosen' = Chosen(schools, idx')
            /\ ui' = Append(ui, "selected_school")
            /\ pc' = "get_meal"
    /\ UNCHANGED <<DEFAULT_KEY, inputs, runs, schools, meals, lunch_items,
                   displayed, calls, net, cvars>>

\* lines 141-146: get_meal through its cache, the failure report
GetMeal ==
    /\ pc = "get_meal"
    /\ calls' = Append(calls, "get_meal")
    /\ LET args == <<API_KEY, chosen.ATPT_OFCDC_SC_CODE, chosen.SD_SCHUL_CODE, query_date>> IN
       \/ /\ args \in DOMAIN meal_cache
          /\ meals' = meal_cache[args]
          /\ pc' = "check_meals"
          /\ UNCHANGED <<ui, net>>
       \/ /\ args \notin DOMAIN meal_cache
          /\ \E resp \in MealResponses :
               LET r == get_meal(resp) IN
               /\ log' = requests_get(log, MealRequest(args[1], args[2], args[3], args[4]), resp)
               /\ meal_resp' = resp
               /\ IF r.raised
                  THEN /\ Report("error_fetch_failed")
                       /\ UNCHANGED <<meals, meal_cache>>
                  ELSE /\ meals' = r.value
                       /\ meal_cache' = (args :> r.value) @@ meal_cache
                       /\ pc' = "check_meals"
                       /\ ui' = ui
          /\ UNCHANGED <<school_resp, school_cache, answered>>
    /\ UNCHANGED <<DEFAULT_KEY, inputs, runs, schools, idx, chosen, lunch_items,
                   displayed, cvars>>

\* lines 148-150
CheckMeals ==
    /\ pc = "check_meals"
    /\ IF Falsy(meals)
       THEN Report("info_no_meal")
       ELSE ui' = ui /\ pc' = "filter"
    /\ UNCHANGED <<DEFAULT_KEY, inputs, runs, locals, calls, net, cvars>>

\* lines 154-157; an exception of the comprehension is not caught
FilterLunch ==
    /\ pc = "filter"
    /\ IF FilterRaises(meals)
       THEN /\ Report("exception")
            /\ UNCHANGED lunch_items
       ELSE /\ lunch_items' = LunchItems(meals.items)
            /\ ui' = ui
            /\ pc' = "display"
    /\ UNCHANGED <<DEFAULT_KEY, inputs, runs, schools, idx, chosen, meals,
                   displayed, calls, net, cvars>>

\* lines 171-197: clean every kept record and render the entries
Display ==
    /\ pc = "display"
    /\ displayed' = Displayed(lunch_items)
    /\ Report(IF displayed' # <<>> THEN "menu" ELSE "info_nothing_to_display")
    /\ UNCHANGED <<DEFAULT_KEY, inputs, runs, schools, idx, chosen, meals,
                   lunch_items, calls, net, cvars>>

Next ==
    \/ Rerun
    \/ CheckKey
    \/ Button
    \/ CheckName
    \/ FindSchool
    \/ CheckSchools
    \/ GetMeal
    \/ CheckMeals
    \/ FilterLunch
    \/ Display

Spec == Init /\ [][Next]_vars

\* menu = clean_ddish(item.get("DDISH_NM", ""))
CleanOnce ==
    /\ cpc = "raw"
    /\ menu' = clean_ddish(txt)
    /\ cpc' = "once"
    /\ UNCHANGED <<txt, menu2>>
    /\ UNCHANGED hvars

\* the cleaned text is cleaned again
CleanTwice ==
    /\ cpc = "once"
    /\ menu2' = clean_ddish(PyStr(menu))
    /\ cpc' = "twice"
    /\ UNCHANGED <<txt, menu>>
    /\ UNCHANGED hvars

NextClean == CleanOnce \/ CleanTwice

SpecClean == InitClean /\ [][NextClean]_vars

(***************************************************************************)
(* The lunch selection on its own: the handler has fetched a non-empty     *)
(* list of meal records whose type code comes in every representation.     *)
(***************************************************************************)
CodeForms ==
    { PyInt(<<"2">>), PyStr(<<"2">>), PyStr(<<"2", " ">>), PyStr(<<" ", "2">>),
      PyStr(<<" ", "2", " ">>), PyInt(<<"1">>), PyStr(<<"1">>), PyStr(<<" ", "1">>),
      PyStr(<<"3">>), PyInt(<<"3">>) }

RECURSIVE SeqsUpTo(_, _)
SeqsUpTo(S, n) ==
    IF n = 0 THEN {<<>>}
    ELSE LET P == SeqsUpTo(S, n - 1) IN P \cup {Append(p, x) : p \in P, x \in S}

FetchedMeals ==
    SeqsUpTo({MealRow(c, Dish, "20240304") : c \in CodeForms}, MaxLunchRows) \ {<<>>}

InitLunch ==
    /\ CleanIdle
    /\ DEFAULT_KEY = None
    /\ api_key_input = <<"k", " ">>
    /\ school_name = <<" ", "A">>
    /\ region = REGION_ALL
    /\ query_date = "20240304"
    /\ button = TRUE
    /\ API_KEY = PyStr(<<"k">>)
    /\ pc = "filter"
    /\ runs = 1
    /\ schools = <<Candidate(Directory[1])>>
    /\ idx = 0
    /\ chosen = Candidate(Directory[1])
    /\ \E rows \in FetchedMeals :
         /\ meals = RowList(rows)
         /\ meal_resp = Response("ok", Envelope(RowList(rows)))
         /\ meal_cache = (<<API_KEY, "B10", "7010", "20240304">> :> RowList(rows))
    /\ lunch_items = <<>>
    /\ displayed = <<>>
    /\ ui = <<"selected_school">>
    /\ log = << SchoolRequest(API_KEY, <<"A">>, REGION_ALL),
                MealRequest(API_KEY, "B10", "7010", "20240304") >>
    /\ calls = <<"find_school", "get_meal">>
    /\ school_resp = Response("ok", Envelope(RowList(<<Directory[1]>>)))
    /\ school_cache = (<<API_KEY, <<"A">>, REGION_ALL>> :> schools)
    /\ answered = {<<API_KEY, <<"A">>, REGION_ALL>>}

NextLunch == FilterLunch \/ Display

SpecLunch == InitLunch /\ [][NextLunch]_vars

(***************************************************************************)
(* Properties.                                                             *)
(***************************************************************************)
Has(seq, x) == \E i \in 1..Len(seq) : seq[i] = x
Last(seq) == seq[Len(seq)]
Count(seq, S) == Cardinality({i \in 1..Len(seq) : seq[i] \in S})
Endpoints == [i \in 1..Len(log) |-> log[i].endpoint]
Failed(resp) == resp.status \in {"transport_error", "http_error"}
ZeroRows(resp) == resp = Response("ok", Envelope(EmptyList))

\* the key the run works with: the trimmed input, else the configured secret
EffectiveKey == IF strip(api_key_input) # <<>> THEN PyStr(strip(api_key_input)) ELSE DEFAULT_KEY
KeyEmpty == EffectiveKey.t = "none" \/ EffectiveKey.s = <<>>
NameBlank == \A i \in 1..Len(school_name) : IsSpace(school_name[i])

\* C1: in a run whose effective API key is empty or whose school name is blank
\* no request is issued and find_school is not called; the run stops with the
\* key warning, or (after a click) with the blank-name error.
C1_NoRequestWithoutKeyOrName ==
    (runs > 0 /\ (KeyEmpty \/ NameBlank)) =>
        /\ log = <<>>
        /\ calls = <<>>
        /\ (pc = "idle" /\ KeyEmpty => ui = <<"warning_api_key">>)
        /\ (pc = "idle" /\ ~KeyEmpty /\ button => ui = <<"error_blank_name">>)

C1_Witness ==
    /\ pc = "idle" /\ button /\ ~KeyEmpty
    /\ school_name = <<" ">>
    /\ ui = <<"error_blank_name">> /\ log = <<>>

\* C2: a transport failure or a non-success status of either request is reported
\* as a failure and never as "no results"; a success response with zero rows
\* gives an empty result and the "no results" report, never a failure.
C2_FailureIsNotEmpty ==
    /\ Failed(school_resp) =>
          pc = "idle" /\ ui = <<"error_search_failed">>
    /\ ZeroRows(school_resp) =>
          /\ schools = <<>>
          /\ ~Has(ui, "error_search_failed")
          /\ (pc = "idle" => ui = <<"info_no_school">>)
    /\ Failed(meal_resp) =>
          /\ pc = "idle" /\ Last(ui) = "error_fetch_failed"
          /\ ~Has(ui, "info_no_meal")
    /\ ZeroRows(meal_resp) =>
          /\ meals = EmptyList
          /\ ~Has(ui, "error_fetch_failed")
          /\ (pc = "idle" => Last(ui) = "info_no_meal")

C2_Witness ==
    /\ pc = "idle"
    /\ school_resp.status = "ok" /\ schools # <<>>
    /\ meal_resp.status = "http_error"
    /\ ui = <<"selected_school", "error_fetch_failed">>

\* C3: a success response whose JSON lacks the expected structure gives an
\* empty result from find_school and from get_meal, and never an error.
C3_MalformedIsEmpty ==
    /\ (school_resp.status = "ok"
        /\ school_resp.body \in MalformedShapes \cup {Envelope(RowList(<<NotARecord>>))})
          => schools = <<>> /\ ~Has(ui, "error_search_failed")
    /\ (meal_resp.status = "ok"
        /\ meal_resp.body \in MalformedShapes \cup {Envelope(RowList(<<NotAMeal>>))})
          => meals = EmptyList /\ ~Has(ui, "error_fetch_failed")

\* str(code).strip() == "2"
CanonIsLunch(m) == strip(Get(m.MMEAL_SC_CODE).s) = <<"2">>
LunchSelected == pc = "display" \/ (pc = "idle" /\ Last(ui) = "menu")

\* C4: when a fetched record has type code "2" in canonical trimmed form, the
\* selection keeps exactly the records with that code, whatever the form.
C4_LunchByCanonicalCode ==
    (LunchSelected /\ SelectSeq(meals.items, CanonIsLunch) # <<>>) =>
        lunch_items = SelectSeq(meals.items, CanonIsLunch)

\* C5: cleaning a cleaned menu text changes nothing.
C5_CleanIdempotent == cpc = "twice" => menu2 = menu

Contains(s, p) == \E i \in 1..Len(s) : StartsWith(SubSeq(s, i, Len(s)), p)
HasBr(s) == Contains(s, BR) \/ Contains(s, BR_SLASH)
HasCode(s) == \E i \in 1..(Len(s) - 1) : IsDigit(s[i]) /\ s[i + 1] = "."
NoDigitDot(s) == SelectSeq(s, LAMBDA c : ~IsDigit(c) /\ c # ".")

\* every line-break token read left to right becomes one newline
RECURSIVE BreaksToNewlines(_)
BreaksToNewlines(s) ==
    IF s = <<>> THEN <<>>
    ELSE IF StartsWith(s, BR_SLASH) THEN NL \o BreaksToNewlines(SubSeq(s, 6, Len(s)))
    ELSE IF StartsWith(s, BR) THEN NL \o BreaksToNewlines(SubSeq(s, 5, Len(s)))
    ELSE <<Head(s)>> \o BreaksToNewlines(Tail(s))

\* apart from digits, periods and surrounding whitespace the output is the
\* input with its line-break tokens turned into newlines
KeptInOrder == strip(NoDigitDot(menu)) = strip(NoDigitDot(BreaksToNewlines(txt.s)))

\* an allergen code stands between the characters of a line-break token
CodeInsideToken(s) ==
    \E i, j \in 1..Len(s) :
        /\ i < j /\ s[i] = "<" /\ s[j] = ">"
        /\ \A k \in (i + 1)..(j - 1) : IsDigit(s[k]) \/ s[k] \in {".", "b", "r", "/"}
        /\ \E k \in (i + 1)..(j - 1) : IsDigit(s[k])
        /\ NoDigitDot(SubSeq(s, i + 1, j - 1)) \in {<<"b", "r">>, <<"b", "r", "/">>}

C7_AtMostTwoInOrder ==
    /\ Len(log) <= 2
    /\ Endpoints \in { <<>>, <<"schoolInfo">>, <<"mealServiceDietInfo">>,
                      <<"schoolInfo", "mealServiceDietInfo">> }
    /\ Has(Endpoints, "mealServiceDietInfo") =>
          /\ schools # <<>>
          /\ <<API_KEY, strip(school_name), region>> \in answered
          /\ (Endpoints[1] = "schoolInfo" => school_resp.status = "ok")
    /\ Failed(school_resp) => Endpoints = <<"schoolInfo">> /\ pc = "idle"
    /\ Failed(meal_resp) => Last(Endpoints) = "mealServiceDietInfo" /\ pc = "idle"

C7_Witness ==
    /\ pc = "idle"
    /\ Endpoints = <<"schoolInfo", "mealServiceDietInfo">>
    /\ Last(ui) = "menu"

\* C8: the region code and the school code of every meal-service request are
\* those of one candidate of the list find_school returned: the one at the
\* selected index (within 0..len-1) if there are several, else the only one.
C8_CodesFromOneCandidate ==
    \A i \in 1..Len(log) :
        log[i].endpoint = "mealServiceDietInfo" =>
            /\ schools # <<>>
            /\ idx \in 0..(Len(schools) - 1)
            /\ LET c == IF Len(schools) > 1 THEN schools[idx + 1] ELSE schools[1] IN
               /\ log[i].ATPT_OFCDC_SC_CODE = c.ATPT_OFCDC_SC_CODE
               /\ log[i].SD_SCHUL_CODE = c.SD_SCHUL_CODE

C8_Witness ==
    /\ Len(schools) = 2 /\ idx = 1
    /\ Has(Endpoints, "mealServiceDietInfo")

TerminalReports ==
    { "error_blank_name", "error_search_failed", "info_no_school",
      "error_fetch_failed", "info_no_meal", "menu" }

\* C10: a lookup (key present, button clicked) that has ended shows exactly one
\* of the six terminal reports; the menu only with a candidate and at least
\* one meal row; a meal-service answer without rows ends in "no meal".
C10_OneTerminalOutcome ==
    (pc = "idle" /\ runs > 0 /\ Truthy(API_KEY) /\ button) =>
        /\ Count(ui, TerminalReports) = 1
        /\ \A i \in 1..Len(ui) : ui[i] \in TerminalReports \cup {"selected_school"}
        /\ Last(ui) \in TerminalReports
        /\ Has(ui, "menu") =>
              schools # <<>> /\ meals.kind = "list" /\ meals.n >= 1 /\ displayed # <<>>
        /\ ZeroRows(meal_resp) => Last(ui) = "info_no_meal" /\ displayed = <<>>

====
